---- MODULE Spec2Model ----
(***************************************************************************)
(* Model of greenhouse_explore.py: the wide-to-long reshape to_long, run   *)
(* by the script on the table read from emissions.csv, and the y-axis      *)
(* heuristic ytrim_from.                                                   *)
(*                                                                         *)
(* Numbers.  A float of ytrim_from is modelled exactly, as a fixed-point   *)
(* record [w, f] that stands for (w + f * 1e-10) / Den: w counts whole     *)
(* units and f counts units of 1e-10, so that the 1e-9 floor of the span   *)
(* and data closer together than 1e-9 are both representable.  Every f     *)
(* of the model stays far below 1e10 in magnitude, hence the order of two  *)
(* numbers is the lexicographic order of (w, f).  pad and strength are     *)
(* numerators over Den.  Rounding of IEEE doubles is not modelled.         *)
(***************************************************************************)
EXTENDS Integers, Sequences, FiniteSets, TLC

VARIABLES
    pc,           \* position of the script: "loaded", then the to_long call just made
    df,           \* the table read from emissions.csv: [columns, rows]
    time_cols,    \* the global time_cols
    df_arg,       \* argument _df of the last to_long call
    id_vars,      \* argument id_vars of the last to_long call
    long,         \* the local long of the last to_long call, before the final mask
    ret,          \* the table the last to_long call returned
    tpc,          \* position of the ytrim_from call: "call", "set", "raised"
    data_like,    \* argument data_like, flattened row-major; <<>> is a missing cell
    pad,          \* argument pad, numerator over Den
    exaggerate,   \* argument exaggerate
    floor0,       \* argument floor0
    strength,     \* argument strength, numerator over Den
    locals,       \* dmin, dmax, span and the ymin of line 22/24, once computed
    ylim          \* the limits given to set_ylim: <<>> or <<ymin, ymax>>

tvars == <<tpc, data_like, pad, exaggerate, floor0, strength, locals, ylim>>

lvars == <<pc, df, time_cols, df_arg, id_vars, long, ret>>

vars == <<lvars, tvars>>

----------------------------------------------------------------------------
(* Bounds and input sets *)

MaxLen == 3

MaxRows == 2

Den == 4 * 5

Val(w, f) == [w |-> w, f |-> f]

\* the values a cell of data_like may hold: w + f * 1e-10
Values ==
    { Val(-50, 0), Val(5, 0), Val(50, 0), Val(100, 0), Val(200, 0),
      Val(0, 3), Val(0, 5) }

Cells == { <<>> } \cup { <<v>> : v \in Values }

Pads == { 0, 1 }                  \* 0, 0.05

Strengths == { 0, 2, 6, Den }     \* 0, 0.1, 0.3, 1

----------------------------------------------------------------------------
(* Fixed-point arithmetic *)

Fx(w, f) == [w |-> w, f |-> f]

Zero == Fx(0, 0)

Lt(a, b) == a.w < b.w \/ (a.w = b.w /\ a.f < b.f)

Le(a, b) == a = b \/ Lt(a, b)

Add(a, b) == Fx(a.w + b.w, a.f + b.f)

Sub(a, b) == Fx(a.w - b.w, a.f - b.f)

\* a * (num / Den); exact, every a it is applied to is a multiple of Den
MulFrac(a, num) == Fx((a.w * num) \div Den, (a.f * num) \div Den)

FxMax(a, b) == IF Lt(a, b) THEN b ELSE a

FxMin(a, b) == IF Lt(b, a) THEN b ELSE a

\* astype(float) of an input cell value
ToFloat(v) == Fx(v.w * Den, v.f * Den)

\* 1e-9
Eps == Fx(0, 10 * Den)

Range(s) == { s[i] : i \in 1..Len(s) }

----------------------------------------------------------------------------
(* Text: the characters of the strings the script inspects or parses *)

Chars(s) ==
    CASE s = "2009Q4" -> <<"2", "0", "0", "9", "Q", "4">>
      [] s = "2010Q1" -> <<"2", "0", "1", "0", "Q", "1">>
      [] s = "2015Q3" -> <<"2", "0", "1", "5", "Q", "3">>
      [] s = "2024Q1" -> <<"2", "0", "2", "4", "Q", "1">>
      [] s = "2024Q4" -> <<"2", "0", "2", "4", "Q", "4">>
      [] s = "2025Q1" -> <<"2", "0", "2", "5", "Q", "1">>
      [] s = "Country" -> <<"C", "o", "u", "n", "t", "r", "y">>
      [] s = "Industry" -> <<"I", "n", "d", "u", "s", "t", "r", "y">>
      [] s = "12" -> <<"1", "2">>
      [] s = "N/A" -> <<"N", "/", "A">>
      [] s = "" -> <<>>

DigitChars == <<"0", "1", "2", "3", "4", "5", "6", "7", "8", "9">>

IsDigit(c) == \E d \in 1..10 : DigitChars[d] = c

DigitVal(c) == (CHOOSE d \in 1..10 : DigitChars[d] = c) - 1

RECURSIVE DecimalValue(_)
DecimalValue(cs) ==
    IF cs = <<>> THEN 0
    ELSE 10 * DecimalValue(SubSeq(cs, 1, Len(cs) - 1)) + DigitVal(cs[Len(cs)])

\* str(y) of a four-digit year
YearStr(y) ==
    << DigitChars[(y \div 1000) + 1], DigitChars[((y \div 100) % 10) + 1],
       DigitChars[((y \div 10) % 10) + 1], DigitChars[(y % 10) + 1] >>

startswith(cs, prefixes) ==
    \E p \in prefixes : Len(cs) >= Len(p) /\ SubSeq(cs, 1, Len(p)) = p

----------------------------------------------------------------------------
(* Input tables *)

TOTAL == "Total Industry and Households"

ELECTRICITY == "Electricity, Gas, Steam and Air Conditioning Supply"

Countries == { "A", "B" }

Industries == { TOTAL, ELECTRICITY }

RawCells == { "12", "N/A", "" }

\* the quarter columns of the CSV files considered, in file order
QuarterLists ==
    { <<>>, <<"2010Q1">>, <<"2025Q1">>, <<"2024Q1", "2024Q4">>, <<"2009Q4", "2015Q3">> }

RowsFor(qcols) ==
    { [c \in {"Country", "Industry"} \cup Range(qcols) |->
          IF c = "Country" THEN ct ELSE IF c = "Industry" THEN ind ELSE q[c]] :
        ct \in Countries, ind \in Industries, q \in [Range(qcols) -> RawCells] }

\* pd.read_csv: the table with quarter columns qcols and rows rs
CsvTable(qcols, rs) == [columns |-> <<"Country", "Industry">> \o qcols, rows |-> rs]

----------------------------------------------------------------------------
(* The script: time_cols, to_long and its four calls *)

FirstYear == 2010

LastYear == 2024

\* line 35: the columns that start with str(y) for a y in range(2010, 2025)
TimeCols(columns) ==
    SelectSeq(columns,
              LAMBDA c : startswith(Chars(c), { YearStr(y) : y \in FirstYear..LastYear }))

\* df[mask]: the rows of t whose Industry is one of inds, in order
Filter(t, inds) ==
    [columns |-> t.columns,
     rows |-> SelectSeq(t.rows, LAMBDA r : r["Industry"] \in inds)]

\* DataFrame.melt: one row per (value column, input row), column by column
melt(t, ids, value_vars) ==
    LET M == Len(t.rows)
    IN  [k \in 1..(Len(value_vars) * M) |->
            LET j == ((k - 1) \div M) + 1
                i == ((k - 1) % M) + 1
            IN  [id |-> [c \in Range(ids) |-> t.rows[i][c]],
                 Quarter |-> value_vars[j],
                 Emissions |-> t.rows[i][value_vars[j]]]]

Timestamp(y, m, d, t) == [year |-> y, month |-> m, day |-> d, time |-> t]

period_year(label) == DecimalValue(SubSeq(Chars(label), 1, 4))

period_quarter(label) == DecimalValue(SubSeq(Chars(label), 6, 6))

to_timestamp_start(label) ==
    Timestamp(period_year(label), 3 * period_quarter(label) - 2, 1, "00:00:00")

to_timestamp_year_end(label) ==
    Timestamp(period_year(label), 12, 31, "23:59:59.999999999")

\* line 41: PeriodIndex(label, freq="Q").to_timestamp(how="end")
to_timestamp_end(label) ==
    LET q == period_quarter(label)
    IN  Timestamp(period_year(label), 3 * q, IF q \in {1, 4} THEN 31 ELSE 30,
                  "23:59:59.999999999")

to_numeric_zero(text) ==
    LET cs == Chars(text)
    IN  IF cs # <<>> /\ \A n \in 1..Len(cs) : IsDigit(cs[n])
        THEN <<DecimalValue(cs)>> ELSE <<0>>

\* line 42: pd.to_numeric(cell, errors="coerce"); <<>> is the missing value
to_numeric(text) ==
    LET cs == Chars(text)
    IN  IF cs # <<>> /\ \A n \in 1..Len(cs) : IsDigit(cs[n])
        THEN <<DecimalValue(cs)>> ELSE <<>>

\* line 43: the mask on long["Quarter"].dt.year
year_mask(row) == row.Quarter.year >= FirstYear /\ row.Quarter.year <= LastYear

IsQuarterLabel(c) ==
    LET cs == Chars(c)
    IN  Len(cs) = 6 /\ cs[5] = "Q" /\ \A n \in {1, 2, 3, 4, 6} : IsDigit(cs[n])

convert(m) ==
    [k \in 1..Len(m) |->
        [id |-> m[k].id,
         Quarter |-> to_timestamp_end(m[k].Quarter),
         Emissions |-> to_numeric(m[k].Emissions)]]

to_long_unclamped(t, ids, tc) ==
    LET l == convert(melt(t, ids, SelectSeq(t.columns, IsQuarterLabel)))
    IN  [long |-> l, ret |-> l]

\* lines 37-43: to_long(_df, id_vars), reading the global time_cols
to_long(t, ids, tc) ==
    LET l == convert(melt(t, ids, tc))
    IN  [long |-> l, ret |-> SelectSeq(l, year_mask)]

\* lines 66-76, 79: SHORT and .map(SHORT).fillna(Industry)
SHORT(ind) ==
    CASE ind = ELECTRICITY -> "Energy"
      [] OTHER -> ind

\* line 117: str.contains("Electricity", case=False) on the industry names
contains_electricity(ind) == ind \in { ELECTRICITY }

with_industry_short(t) ==
    [columns |-> t.columns \o <<"Industry_short">>,
     rows |-> [i \in 1..Len(t.rows) |->
                 [c \in DOMAIN t.rows[i] \cup {"Industry_short"} |->
                     IF c = "Industry_short" THEN SHORT(t.rows[i]["Industry"])
                     ELSE t.rows[i][c]]]]

\* the script after lines 8 and 35; ytrim_from is defined and not called
Init ==
    /\ pc = "loaded"
    /\ \E qcols \in QuarterLists : \E n \in 0..MaxRows :
          \E rs \in [1..n -> RowsFor(qcols)] : df = CsvTable(qcols, rs)
    /\ time_cols = TimeCols(df.columns)
    /\ df_arg = [columns |-> <<>>, rows |-> <<>>]
    /\ id_vars = <<>>
    /\ long = <<>>
    /\ ret = <<>>
    /\ tpc = "idle"
    /\ data_like = <<>>
    /\ pad = 1
    /\ exaggerate = FALSE
    /\ floor0 = TRUE
    /\ strength = 6
    /\ locals = [dmin |-> Fx(0, 0), dmax |-> Fx(0, 0), span |-> Fx(0, 0),
                 ymin0 |-> Fx(0, 0)]
    /\ ylim = <<>>

Call(t, ids, next) ==
    LET r == to_long(t, ids, time_cols)
    IN  /\ df_arg' = t
        /\ id_vars' = ids
        /\ long' = r.long
        /\ ret' = r.ret
        /\ pc' = next
        /\ UNCHANGED <<df, time_cols, tvars>>

\* lines 48-49
LongTotal ==
    /\ pc = "loaded"
    /\ Call(Filter(df, { i \in Industries : i = TOTAL }),
            <<"Country", "Industry">>, "long_total")

\* lines 78-81
SectorLong ==
    /\ pc = "long_total"
    /\ Call(with_industry_short(Filter(df, { i \in Industries : i # TOTAL })),
            <<"Industry", "Industry_short">>, "sector_long")

\* lines 116, 120
CompareTotal ==
    /\ pc = "sector_long"
    /\ Call(Filter(df, { i \in Industries : i = TOTAL }), <<"Industry">>,
            "compare_total")

\* lines 117, 121
CompareElec ==
    /\ pc = "compare_total"
    /\ Call(Filter(df, { i \in Industries : contains_electricity(i) }),
            <<"Industry">>, "compare_elec")

NextLong == LongTotal \/ SectorLong \/ CompareTotal \/ CompareElec

Spec == Init /\ [][NextLong]_vars

----------------------------------------------------------------------------
(* Properties of to_long *)

Called == pc \in { "long_total", "sector_long", "compare_total", "compare_elec" }

NCols == Len(time_cols)

MRows == Len(df_arg.rows)

\* the row of a table made for input row i and quarter column j
RowOf(t, i, j) == t[(j - 1) * MRows + i]

\* the last instant of each quarter named by a column
QuarterEnd(label) ==
    CASE label = "2009Q4" -> Timestamp(2009, 12, 31, "23:59:59.999999999")
      [] label = "2010Q1" -> Timestamp(2010, 3, 31, "23:59:59.999999999")
      [] label = "2015Q3" -> Timestamp(2015, 9, 30, "23:59:59.999999999")
      [] label = "2024Q1" -> Timestamp(2024, 3, 31, "23:59:59.999999999")
      [] label = "2024Q4" -> Timestamp(2024, 12, 31, "23:59:59.999999999")
      [] label = "2025Q1" -> Timestamp(2025, 3, 31, "23:59:59.999999999")

\* C1: before the final mask, to_long holds N x M rows, one per (input row,
\* quarter column), each with the identifier values of its input row and
\* the quarter-end timestamp of its column's label.
C1_OneRowPerCell ==
    Called =>
        /\ Len(long) = NCols * MRows
        /\ \A i \in 1..MRows : \A j \in 1..NCols :
              /\ DOMAIN RowOf(long, i, j).id = Range(id_vars)
              /\ \A c \in Range(id_vars) :
                    RowOf(long, i, j).id[c] = df_arg.rows[i][c]
              /\ RowOf(long, i, j).Quarter = QuarterEnd(time_cols[j])

C1_Witness ==
    /\ pc = "long_total" /\ NCols = 2 /\ MRows = 2 /\ Len(long) = 4
    /\ long[4].Quarter = QuarterEnd("2024Q4")

SameKey(a, b) == a.id = b.id /\ a.Quarter = b.Quarter

NoDuplicateKeys == \A a, b \in 1..Len(ret) : SameKey(ret[a], ret[b]) => a = b

DistinctInputIds ==
    \A a, b \in 1..MRows :
        (\A c \in Range(id_vars) : df_arg.rows[a][c] = df_arg.rows[b][c]) => a = b

\* the CSV holds each (Country, Industry) pair at most once
DistinctCsvRows ==
    \A a, b \in 1..Len(df.rows) :
        (df.rows[a]["Country"] = df.rows[b]["Country"]
            /\ df.rows[a]["Industry"] = df.rows[b]["Industry"]) => a = b

\* C2 as stated: no two rows returned by to_long share both the identifier
\* values and the Quarter, the calls with id_vars=["Industry"] on a table of
\* several countries' rows included.
C2_AsStated == (Called /\ DistinctCsvRows) => NoDuplicateKeys

\* C2 amended: to_long returns one row per (input row, quarter column); no
\* two returned rows share both the identifier values and the Quarter
\* provided the input rows have pairwise distinct identifier tuples.
C2_DistinctKeys ==
    Called =>
        /\ Len(ret) = NCols * MRows
        /\ DistinctInputIds => NoDuplicateKeys

C2_Witness ==
    /\ pc = "long_total" /\ NCols = 2 /\ MRows = 2 /\ DistinctInputIds
    /\ Len(ret) = 4

\* C3: every row to_long returns has a Quarter with year in [2010, 2024]; a
\* column whose label has a year outside it contributes no row.
C3_YearsClamped ==
    Called =>
        /\ \A k \in 1..Len(ret) : ret[k].Quarter.year \in 2010..2024
        /\ \A n \in 1..Len(df.columns) : \A k \in 1..Len(ret) :
              df.columns[n] \in { "2009Q4", "2025Q1" }
                  => ret[k].Quarter # QuarterEnd(df.columns[n])

C3_Witness ==
    /\ Called /\ Len(ret) > 0
    /\ \E n \in 1..Len(df.columns) : df.columns[n] = "2009Q4"
    /\ Len(df_arg.rows) > 0

\* the number a cell holds, if it holds one
NumericOf(text) ==
    CASE text = "12" -> <<12>>
      [] text = "N/A" -> <<>>
      [] text = "" -> <<>>

\* C4: a cell that is no number ("N/A", an empty cell) does not make the call
\* fail and does not become 0: its row is returned with Emissions missing,
\* and a numeric cell keeps its value.
C4_CoerceToMissing ==
    Called =>
        /\ Len(ret) = NCols * MRows
        /\ \A i \in 1..MRows : \A j \in 1..NCols :
              /\ RowOf(ret, i, j).Emissions = NumericOf(df_arg.rows[i][time_cols[j]])
              /\ df_arg.rows[i][time_cols[j]] \in { "N/A", "" }
                    => RowOf(ret, i, j).Emissions # <<0>>

C4_Witness ==
    /\ Called /\ NCols = 2 /\ MRows = 2
    /\ df_arg.rows[1][time_cols[1]] = "N/A"
    /\ df_arg.rows[2][time_cols[1]] = ""
    /\ df_arg.rows[1][time_cols[2]] = "12"
    /\ ret[1].Emissions = <<>> /\ ret[2].Emissions = <<>> /\ ret[3].Emissions = <<12>>

----------------------------------------------------------------------------
(* ytrim_from *)

IsPresent(c) == c # <<>>

ZeroFill(c) == IF c = <<>> THEN <<Val(0, 0)>> ELSE c

stack_fillna0(d) == [i \in 1..Len(d) |-> ToFloat(ZeroFill(d[i])[1])]

\* pd.DataFrame(data_like).stack().astype(float): the non-missing cells
stack(d) ==
    LET kept == SelectSeq(d, IsPresent)
    IN  [i \in 1..Len(kept) |-> ToFloat(kept[i][1])]

\* line 17: vals.min(), vals.max()
vals_min(vals) == CHOOSE x \in Range(vals) : \A y \in Range(vals) : Le(x, y)

vals_max(vals) == CHOOSE x \in Range(vals) : \A y \in Range(vals) : Le(y, x)

span_no_floor(dmin, dmax) == Sub(dmax, dmin)

\* line 18: span = max(dmax - dmin, 1e-9)
span_of(dmin, dmax) == FxMax(Sub(dmax, dmin), Eps)

ymin_exaggerate_swapped(dmax, span, s) == Sub(dmax, MulFrac(span, s))

\* line 22: ymin = dmax - span * (1 - strength)
ymin_exaggerate(dmax, span, s) == Sub(dmax, MulFrac(span, Den - s))

ymin_pad_plus(dmin, span, p) == Add(dmin, MulFrac(span, p))

\* line 24: ymin = dmin - span * pad
ymin_pad(dmin, span, p) == Sub(dmin, MulFrac(span, p))

\* line 26: ymax = dmax + span * pad
ymax_of(dmax, span, p) == Add(dmax, MulFrac(span, p))

floor_ymin_min(fl, ymin) == IF fl THEN FxMin(Zero, ymin) ELSE ymin

\* lines 27-28: if floor0: ymin = max(0.0, ymin)
floor_ymin(fl, ymin) == IF fl THEN FxMax(Zero, ymin) ELSE ymin

\* the body of ytrim_from on a non-empty vals: its locals and the pair it sets
ytrim_from(d, p, ex, fl, s) ==
    LET vals == stack(d)
        dmin == vals_min(vals)
        dmax == vals_max(vals)
        span == span_of(dmin, dmax)
        ymin0 == IF ex THEN ymin_exaggerate(dmax, span, s) ELSE ymin_pad(dmin, span, p)
        ymax == ymax_of(dmax, span, p)
    IN  [dmin |-> dmin, dmax |-> dmax, span |-> span, ymin0 |-> ymin0,
         ymin |-> floor_ymin(fl, ymin0), ymax |-> ymax]

\* a call of ytrim_from on its own, the script's tables left aside
InitTrim ==
    /\ pc = "idle"
    /\ df = [columns |-> <<>>, rows |-> <<>>]
    /\ time_cols = <<>>
    /\ df_arg = [columns |-> <<>>, rows |-> <<>>]
    /\ id_vars = <<>>
    /\ long = <<>>
    /\ ret = <<>>
    /\ tpc = "call"
    /\ \E n \in 0..MaxLen : data_like \in [1..n -> Cells]
    /\ pad \in Pads
    /\ exaggerate \in BOOLEAN
    /\ floor0 \in BOOLEAN
    /\ strength \in Strengths
    /\ locals = [dmin |-> Zero, dmax |-> Zero, span |-> Zero, ymin0 |-> Zero]
    /\ ylim = <<>>

\* ytrim_from on data with a non-missing cell: set_ylim(ymin, ymax)
YtrimFrom ==
    /\ tpc = "call"
    /\ Len(stack(data_like)) > 0
    /\ LET r == ytrim_from(data_like, pad, exaggerate, floor0, strength)
       IN  /\ locals' = [dmin |-> r.dmin, dmax |-> r.dmax, span |-> r.span,
                         ymin0 |-> r.ymin0]
           /\ ylim' = <<r.ymin, r.ymax>>
    /\ tpc' = "set"
    /\ UNCHANGED <<data_like, pad, exaggerate, floor0, strength, lvars>>

\* ytrim_from on empty vals: min and max are NaN and set_ylim raises
YtrimFromEmpty ==
    /\ tpc = "call"
    /\ Len(stack(data_like)) = 0
    /\ tpc' = "raised"
    /\ UNCHANGED <<data_like, pad, exaggerate, floor0, strength, locals, ylim, lvars>>

NextTrim == YtrimFrom \/ YtrimFromEmpty

SpecTrim == InitTrim /\ [][NextTrim]_vars

----------------------------------------------------------------------------
(* Properties of ytrim_from *)

Present == { c[1] : c \in { d \in Range(data_like) : d # <<>> } }

HasMissing == \E i \in 1..Len(data_like) : data_like[i] = <<>>

\* v is the least / the greatest non-missing value of data_like
IsDataMin(v) == v \in Present /\ \A u \in Present : Le(v, u)

IsDataMax(v) == v \in Present /\ \A u \in Present : Le(u, v)

DataMin == ToFloat(CHOOSE v \in Present : IsDataMin(v))

DataMax == ToFloat(CHOOSE v \in Present : IsDataMax(v))

\* max(dmax - dmin, 1e-9), from the data
DataSpan ==
    IF Lt(Eps, Sub(DataMax, DataMin)) THEN Sub(DataMax, DataMin) ELSE Eps

\* x * Den, to compare with a product of x's factors
Times(x, k) == Fx(x.w * k, x.f * k)

\* the general part of C5: ymax = dmax + span * pad and, before the clamp,
\* ymin = dmax - span * (1 - strength)
ExaggerateFormulas ==
    /\ locals.dmin = DataMin
    /\ locals.dmax = DataMax
    /\ locals.span = DataSpan
    /\ Times(ylim[2], Den) = Add(Times(DataMax, Den), Times(DataSpan, pad))
    /\ Times(locals.ymin0, Den) = Sub(Times(DataMax, Den), Times(DataSpan, Den - strength))

\* values spanning [100, 200], strength = 0.1, pad = 0.05
Spans100To200 ==
    /\ DataMin = ToFloat(Val(100, 0))
    /\ DataMax = ToFloat(Val(200, 0))
    /\ strength = 2
    /\ pad = 1

\* C5 as stated: with exaggerate=true, ymax = dmax + span*pad and the unclamped
\* ymin = dmax - span*(1 - strength); values spanning [100, 200] with
\* strength=0.1 and pad=0.05 give ymin = 190 and ymax = 205.
C5_AsStated ==
    (tpc = "set" /\ exaggerate) =>
        /\ ExaggerateFormulas
        /\ Spans100To200 =>
              ylim = <<ToFloat(Val(190, 0)), ToFloat(Val(205, 0))>>

\* C5 amended: with exaggerate=true, ymax = dmax + span*pad and the unclamped
\* ymin = dmax - span*(1 - strength); values spanning [100, 200] with
\* strength=0.1 and pad=0.05 give ymin = 110 and ymax = 205.
C5_ExaggerateLimits ==
    (tpc = "set" /\ exaggerate) =>
        /\ ExaggerateFormulas
        /\ Spans100To200 =>
              ylim = <<ToFloat(Val(110, 0)), ToFloat(Val(205, 0))>>

C5_Witness == tpc = "set" /\ exaggerate /\ Spans100To200

\* C6: with floor0 the applied ymin is max(0, unclamped ymin), never negative
\* (values spanning [-50, 50] with exaggerate=false give 0); without floor0
\* the unclamped ymin is applied as is.
C6_FloorClamp ==
    tpc = "set" =>
        /\ floor0 =>
              /\ ~ Lt(ylim[1], Zero)
              /\ ylim[1] = (IF Lt(locals.ymin0, Zero) THEN Zero ELSE locals.ymin0)
        /\ (floor0 /\ ~ exaggerate /\ DataMin = ToFloat(Val(-50, 0))
              /\ DataMax = ToFloat(Val(50, 0))) => ylim[1] = Zero
        /\ ~ floor0 => ylim[1] = locals.ymin0

C6_Witness ==
    /\ tpc = "set" /\ floor0 /\ ~ exaggerate
    /\ DataMin = ToFloat(Val(-50, 0)) /\ DataMax = ToFloat(Val(50, 0))
    /\ Lt(locals.ymin0, Zero)
    /\ ylim[1] = Zero

ClampIdle == ylim[1] = locals.ymin0

\* C7 as stated: with exaggerate=true and the clamp not changing ymin,
\* dmax - ymin = strength * span.
C7_AsStated ==
    (tpc = "set" /\ exaggerate /\ ClampIdle) =>
        Times(Sub(DataMax, ylim[1]), Den) = Times(DataSpan, strength)

\* C7 amended: with exaggerate=true and the clamp not changing ymin,
\* dmax - ymin = (1 - strength) * span: the top (1 - strength) fraction of
\* the span stays between ymin and dmax.
C7_TopFraction ==
    (tpc = "set" /\ exaggerate /\ ClampIdle) =>
        Times(Sub(DataMax, ylim[1]), Den) = Times(DataSpan, Den - strength)

C7_Witness ==
    /\ tpc = "set" /\ exaggerate /\ ClampIdle /\ strength = 6
    /\ Lt(DataMin, DataMax)

\* C8: for pad > 0 and strength in [0, 1] the limits given to set_ylim
\* satisfy ymin < ymax, whatever the data, exaggerate and floor0.
C8_NonDegenerate ==
    (tpc = "set" /\ pad > 0 /\ strength >= 0 /\ strength <= Den) =>
        Lt(ylim[1], ylim[2])

Limits(r) == <<r.ymin, r.ymax>>

MissingRemoved == SelectSeq(data_like, LAMBDA c : c # <<>>)

MissingAsZero ==
    [i \in 1..Len(data_like) |->
        IF data_like[i] = <<>> THEN <<Val(0, 0)>> ELSE data_like[i]]

SameAsMissingRemoved ==
    ylim = Limits(ytrim_from(MissingRemoved, pad, exaggerate, floor0, strength))

DiffersFromZeroFilled ==
    ylim # Limits(ytrim_from(MissingAsZero, pad, exaggerate, floor0, strength))

\* C9 as stated: the limits equal those of the collection with the missing
\* entries removed, and differ from those with the missing entries replaced
\* by 0 whenever 0 lies outside [dmin, dmax].
C9_AsStated ==
    (tpc = "set" /\ Present # {}) =>
        /\ SameAsMissingRemoved
        /\ (HasMissing /\ (Lt(DataMax, Zero) \/ Lt(Zero, DataMin)))
              => DiffersFromZeroFilled

\* C9 amended: the limits equal those of the collection with the missing
\* entries removed; for pad >= 0 they differ from those with the missing
\* entries replaced by 0 whenever dmax < 0, or dmin > 0 with pad > 0 and
\* dmax > 1e-9.
C9_MissingIgnored ==
    (tpc = "set" /\ Present # {}) =>
        /\ SameAsMissingRemoved
        /\ (HasMissing /\ (\/ Lt(DataMax, Zero)
                           \/ (Lt(Zero, DataMin) /\ pad > 0 /\ Lt(Eps, DataMax))))
              => DiffersFromZeroFilled

C9_Witness ==
    /\ tpc = "set" /\ HasMissing /\ pad > 0
    /\ Lt(Zero, DataMin) /\ Lt(DataMin, DataMax)

AllNonNegative == \A v \in Present : Le(Zero, ToFloat(v))

\* C10: with exaggerate=false, pad >= 0 and floor0=false or all values >= 0,
\* every non-missing value lies in [ymin, ymax]; with exaggerate=true,
\* strength > 0, dmax - dmin > 1e-9 and the clamp idle, dmin < ymin.
C10_HidesNoData ==
    tpc = "set" =>
        /\ (~ exaggerate /\ pad >= 0 /\ (~ floor0 \/ AllNonNegative)) =>
              \A v \in Present : Le(ylim[1], ToFloat(v)) /\ Le(ToFloat(v), ylim[2])
        /\ (exaggerate /\ strength > 0 /\ Lt(Eps, Sub(DataMax, DataMin)) /\ ClampIdle)
              => Lt(DataMin, ylim[1])

C10_Witness ==
    /\ tpc = "set" /\ ~ exaggerate /\ pad > 0 /\ floor0
    /\ AllNonNegative /\ Lt(DataMin, DataMax)
    /\ Lt(ylim[1], DataMin)

====
